---- MODULE Spec2Model ----
(***************************************************************************)
(* A model of the LRU cache of xj63/lru-cache (class LRUCache): a Map from *)
(* keys to list nodes plus a doubly linked list of nodes between two       *)
(* sentinel nodes, most recently used first.                               *)
(*                                                                         *)
(* The heap of LRUNode objects is modelled explicitly: every node has an   *)
(* identity and the four fields key, value, prev, next.  Nodes that were   *)
(* unlinked keep their fields, exactly as the objects do.                  *)
(***************************************************************************)
EXTENDS Integers, Sequences, FiniteSets, TLC

(***************************************************************************)
(* Bounds of the model.                                                    *)
(***************************************************************************)
\* number of distinct values the caller uses
NumValues == 2
\* largest capacity argument passed to the constructor
MaxCapacity == 3
\* number of LRUNode objects that can exist at a time (besides the sentinels)
MaxNodes == 4
\* capacity arguments are the multiples of 1/Denominator, so that a
\* non-integer argument such as 1.5 is one of them
Denominator == 2
\* number of yields of a traversal the history `yielded` keeps: the latest ones
MaxYielded == 4

\* the keys and the values the caller uses
Keys == {1, 2, 3}
Values == 1..NumValues

\* A capacity argument c stands for the number c / Denominator.
CapacityArgs == (-Denominator)..(MaxCapacity * Denominator)
IsInteger(c) == c % Denominator = 0
\* the integer arguments -1, 0, 1, ..., MaxCapacity
IntegerArgs == {c \in CapacityArgs : IsInteger(c)}

(***************************************************************************)
(* Node identities and the values of the language.                         *)
(***************************************************************************)
\* the null reference (LRUNode | null)
Null == 0
\* this.head and this.tail, the two sentinel nodes
head == 1
tail == 2
\* the identities `new LRUNode(key, value)` in set draws from
NodeIds == (tail + 1)..(tail + MaxNodes)
\* `null as any`, the key and the value of the sentinels
NullKey == 0
NullValue == 0
\* the value `undefined`
Undefined == -1

\* class LRUNode: the object `new LRUNode(key, value)`
LRUNode(k, v) == [key |-> k, value |-> v, prev |-> Null, next |-> Null]

VARIABLES
    phase,      \* "new": before the constructor ran, "live": an instance exists,
                \* "failed": the constructor threw
    capacity,   \* this.capacity (in units of 1/Denominator)
    cache,      \* this.cache: the Map, a function from the keys it holds to nodes
    heap,       \* the LRUNode objects: node identity -> its fields
    iter,       \* the generator object of [Symbol.iterator], if one was made
    touched,    \* history: all keys ever touched, latest touch first
    written,    \* history: for each key set and not since deleted, evicted or
                \* cleared, the value of the latest set of that key
    yielded,    \* history: the pairs the generator has yielded so far (the
                \* latest MaxYielded of them)
    obtained,   \* history: what keys() was when the generator was made
    last,       \* history: the call that was made last: its name and arguments,
                \* whether the Map held the key when it began (hit), and the
                \* key removeTail removed during it (evicted, NullKey if none)
    ret,        \* what the last call returned (a step of the generator hands
                \* its pair to the loop: the pair is the last of `yielded`)
    error       \* what the last call threw ("none" if it returned)

vars == <<phase, capacity, cache, heap, iter, touched, written, yielded,
          obtained, last, ret, error>>

(***************************************************************************)
(* The store an operation works on: the heap and the Map, and whether a    *)
(* TypeError was thrown (a non-null assertion `x!` that met null and was   *)
(* then dereferenced).  After a throw the rest of the operation is skipped.*)
(***************************************************************************)
Store(h, c) == [heap |-> h, cache |-> c, err |-> FALSE, evicted |-> NullKey]

Throw(st) == [st EXCEPT !.err = TRUE]

\* node.field = x
SetField(st, node, field, x) ==
    IF st.err THEN st
    ELSE IF node = Null THEN Throw(st)
    ELSE [st EXCEPT !.heap[node][field] = x]

\* this.cache.set(key, node)
MapSet(st, k, node) ==
    IF st.err THEN st
    ELSE [st EXCEPT !.cache = [x \in (DOMAIN st.cache) \cup {k} |->
                                  IF x = k THEN node ELSE st.cache[x]]]

\* this.cache.delete(key)
MapDelete(st, k) ==
    IF st.err THEN st
    ELSE [st EXCEPT !.cache = [x \in (DOMAIN st.cache) \ {k} |-> st.cache[x]]]

\* this.cache.get(key): the node, or Null for undefined
MapGet(c, k) == IF k \in DOMAIN c THEN c[k] ELSE Null

(***************************************************************************)
(* The private list methods.                                               *)
(***************************************************************************)
\* variant: the last line, this.head.next = node, is missing
addToHeadNoHeadLink(st, node) ==
    LET s1 == SetField(st, node, "prev", head)
        s2 == SetField(s1, node, "next", s1.heap[head].next)
        s3 == SetField(s2, s2.heap[head].next, "prev", node)
    IN  IF st.err THEN st ELSE s3

addToHead(st, node) ==
    LET s1 == SetField(st, node, "prev", head)
        s2 == SetField(s1, node, "next", s1.heap[head].next)
        s3 == SetField(s2, s2.heap[head].next, "prev", node)
        s4 == SetField(s3, head, "next", node)
    IN  IF st.err THEN st ELSE s4

\* variant: the second line, node.next.prev = node.prev, is missing
removeNodeOneWay(st, node) ==
    LET s1 == SetField(st, st.heap[node].prev, "next", st.heap[node].next)
    IN  IF st.err THEN st ELSE s1

removeNode(st, node) ==
    LET s1 == SetField(st, st.heap[node].prev, "next", st.heap[node].next)
        s2 == SetField(s1, s1.heap[node].next, "prev", s1.heap[node].prev)
    IN  IF st.err THEN st ELSE s2

\* variant: the node stays where it is
moveToHeadNoop(st, node) == st

moveToHead(st, node) ==
    addToHead(removeNode(st, node), node)

\* variant: the Map keeps the removed node's key
removeTailKeepsMapEntry(st) ==
    LET lastNode == st.heap[tail].prev
    IN  IF st.err THEN st
        ELSE IF lastNode = Null THEN Throw(st)
        ELSE removeNode(st, lastNode)

removeTail(st) ==
    LET lastNode == st.heap[tail].prev
        s1 == IF lastNode = Null THEN Throw(st)
              ELSE [MapDelete(st, st.heap[lastNode].key)
                       EXCEPT !.evicted = st.heap[lastNode].key]
    IN  IF st.err THEN st
        ELSE IF s1.err THEN s1 ELSE removeNode(s1, lastNode)

(***************************************************************************)
(* The walk of keys(), values(), entries(): from head.next along next      *)
(* while the current node is neither null nor the tail sentinel.  The walk *)
(* is cut off after `fuel` nodes, more than any acyclic list can hold, so  *)
(* that a walk that would not end is a sequence longer than the heap.      *)
(***************************************************************************)
RECURSIVE Walk(_, _, _)
Walk(h, current, fuel) ==
    IF current = Null \/ current = tail \/ fuel = 0 THEN <<>>
    ELSE <<current>> \o Walk(h, h[current].next, fuel - 1)

WalkNodes(h) == Walk(h, h[head].next, Cardinality(DOMAIN h) + 1)

keys(h) == [i \in 1..Len(WalkNodes(h)) |-> h[WalkNodes(h)[i]].key]
values(h) == [i \in 1..Len(WalkNodes(h)) |-> h[WalkNodes(h)[i]].value]
entries(h) == [i \in 1..Len(WalkNodes(h)) |->
                  <<h[WalkNodes(h)[i]].key, h[WalkNodes(h)[i]].value>>]

\* get size(): this.cache.size
size(c) == Cardinality(DOMAIN c)

(***************************************************************************)
(* History of touches: the key touched now goes first.                     *)
(***************************************************************************)
RECURSIVE Without(_, _)
Without(s, k) ==
    IF s = <<>> THEN <<>>
    ELSE IF Head(s) = k THEN Without(Tail(s), k)
    ELSE <<Head(s)>> \o Without(Tail(s), k)

Touch(s, k) == <<k>> \o Without(s, k)

\* arg is the capacity argument of a construction, 0 for every other call
Call(op, k, v, hit, evicted) ==
    [op |-> op, key |-> k, value |-> v, hit |-> hit, evicted |-> evicted,
     arg |-> 0]
\* a call that takes no key
Call0(op) == Call(op, NullKey, NullValue, FALSE, NullKey)
\* a construction with the capacity argument c
CallNew(op, c) == [Call0(op) EXCEPT !.arg = c]

(***************************************************************************)
(* The state before `new LRUCache(capacity)` runs.  The field initialisers *)
(* and the constructor body are the action Construct.                      *)
(***************************************************************************)
EmptyMap == [x \in {} |-> Null]

\* the history of writes when no key is stored
NoWrites == [x \in {} |-> NullValue]
\* the history after set(k, v) during which the key `evicted` was removed
Write(w, k, v, evicted) ==
    [x \in ((DOMAIN w) \ {evicted}) \cup {k} |-> IF x = k THEN v ELSE w[x]]
\* the history after delete(k)
Unwrite(w, k) == [x \in (DOMAIN w) \ {k} |-> w[x]]

Init ==
    /\ phase = "new"
    /\ capacity = 0
    /\ cache = EmptyMap
    /\ heap = [n \in {} |-> LRUNode(NullKey, NullValue)]
    /\ iter = [st |-> "none", current |-> Null]
    /\ touched = <<>>
    /\ written = NoWrites
    /\ yielded = <<>>
    /\ obtained = <<>>
    /\ last = Call0("none")
    /\ ret = Undefined
    /\ error = "none"

\* the two sentinels the constructor makes, linked to each other
Sentinels ==
    [n \in {head, tail} |->
        IF n = head
        THEN [LRUNode(NullKey, NullValue) EXCEPT !.next = tail]
        ELSE [LRUNode(NullKey, NullValue) EXCEPT !.prev = head]]

\* variant: the test is capacity < 0, so 0 is accepted
constructorAcceptsZero(c) ==
    IF c < 0
    THEN /\ phase' = "failed"
         /\ error' = "Capacity must be positive"
         /\ UNCHANGED <<capacity, cache, heap>>
    ELSE /\ phase' = "live"
         /\ error' = "none"
         /\ capacity' = c
         /\ cache' = EmptyMap
         /\ heap' = Sentinels

\* variant: the sentinels are made but not linked to each other
constructorNoLinks(c) ==
    IF c <= 0
    THEN /\ phase' = "failed"
         /\ error' = "Capacity must be positive"
         /\ UNCHANGED <<capacity, cache, heap>>
    ELSE /\ phase' = "live"
         /\ error' = "none"
         /\ capacity' = c
         /\ cache' = EmptyMap
         /\ heap' = [n \in {head, tail} |-> LRUNode(NullKey, NullValue)]

\* constructor(capacity): the instance it builds, or the throw
constructor(c) ==
    IF c <= 0
    THEN /\ phase' = "failed"
         /\ error' = "Capacity must be positive"
         /\ UNCHANGED <<capacity, cache, heap>>
    ELSE /\ phase' = "live"
         /\ error' = "none"
         /\ capacity' = c
         /\ cache' = EmptyMap
         /\ heap' = Sentinels

\* new LRUCache(c)
Construct(c) ==
    /\ phase = "new"
    /\ constructor(c)
    /\ last' = CallNew("new", c)
    /\ ret' = Undefined
    /\ UNCHANGED <<iter, touched, written, yielded, obtained>>

\* variant: a capacity that is not positive is replaced by 1
createLRUCacheDefaults(c) ==
    /\ phase = "new"
    /\ constructor(IF c <= 0 THEN Denominator ELSE c)
    /\ last' = CallNew("createLRUCache", c)
    /\ ret' = Undefined
    /\ UNCHANGED <<iter, touched, written, yielded, obtained>>

\* createLRUCache({ capacity: c })
createLRUCache(c) ==
    /\ phase = "new"
    /\ constructor(c)
    /\ last' = CallNew("createLRUCache", c)
    /\ ret' = Undefined
    /\ UNCHANGED <<iter, touched, written, yielded, obtained>>

(***************************************************************************)
(* Objects no reference leads to any more are gone: the heap holds the     *)
(* nodes reachable from the instance (head, tail, the Map's nodes) and     *)
(* from a generator's current node, along prev and next.                   *)
(***************************************************************************)
RECURSIVE Reach(_, _)
Reach(h, S) ==
    LET T == S \cup (({h[n].prev : n \in S} \cup {h[n].next : n \in S}) \ {Null})
    IN  IF T = S THEN S ELSE Reach(h, T)

Roots(c, it) == ({head, tail} \cup {c[k] : k \in DOMAIN c} \cup {it.current}) \ {Null}

Collect(h, c, it) == [n \in Reach(h, Roots(c, it)) |-> h[n]]

\* the outcome of an operation that ran on the store to st
Commit(st) ==
    /\ heap' = Collect(st.heap, st.cache, iter)
    /\ cache' = st.cache
    /\ error' = IF st.err THEN "TypeError" ELSE "none"

\* variant: the early return on a miss is missing, so the undefined node
\* is dereferenced
GetNoMissCheck(k) ==
    /\ phase = "live"
    /\ LET node == MapGet(cache, k)
           st == Store(heap, cache)
       IN  IF node = Null
           THEN /\ Commit(Throw(st))
                /\ ret' = Undefined
                /\ UNCHANGED touched
           ELSE LET s1 == moveToHead(st, node)
                IN  /\ Commit(s1)
                    /\ ret' = IF s1.err THEN Undefined ELSE s1.heap[node].value
                    /\ touched' = Touch(touched, k)
    /\ last' = Call("get", k, NullValue, k \in DOMAIN cache, NullKey)
    /\ UNCHANGED <<phase, capacity, iter, written, yielded, obtained>>

\* get(key)
Get(k) ==
    /\ phase = "live"
    /\ LET node == MapGet(cache, k)
           st == Store(heap, cache)
       IN  IF node = Null
           THEN /\ Commit(st)
                /\ ret' = Undefined
                /\ UNCHANGED touched
           ELSE LET s1 == moveToHead(st, node)
                IN  /\ Commit(s1)
                    /\ ret' = IF s1.err THEN Undefined ELSE s1.heap[node].value
                    /\ touched' = Touch(touched, k)
    /\ last' = Call("get", k, NullValue, k \in DOMAIN cache, NullKey)
    /\ UNCHANGED <<phase, capacity, iter, written, yielded, obtained>>

\* variant: this.cache.size > this.capacity
AtCapacityStrict(c, cap) == size(c) * Denominator > cap

\* variant: this.cache.size + 1 >= this.capacity
AtCapacityOffByOne(c, cap) == (size(c) + 1) * Denominator >= cap

\* this.cache.size >= this.capacity
AtCapacity(c, cap) == size(c) * Denominator >= cap

\* variant: the node is promoted but its value is not overwritten
setExistingKeepsValue(st, existingNode, v) ==
    moveToHead(st, existingNode)

\* variant: the value is written to the first node of the list
setExistingWritesFirst(st, existingNode, v) ==
    moveToHead(SetField(st, st.heap[head].next, "value", v), existingNode)

\* set(key, value) when the key is in the Map
setExisting(st, existingNode, v) ==
    moveToHead(SetField(st, existingNode, "value", v), existingNode)

\* variant: the least recently used entry is removed before every insertion
setNewAlwaysEvicts(st, cap, k, newNode) ==
    LET s1 == IF size(st.cache) > 0 THEN removeTail(st) ELSE st
        s2 == MapSet(s1, k, newNode)
    IN  addToHead(s2, newNode)

\* variant: the new node is linked in front of the tail sentinel
setNewAtTail(st, cap, k, newNode) ==
    LET s1 == IF AtCapacity(st.cache, cap) THEN removeTail(st) ELSE st
        s2 == MapSet(s1, k, newNode)
        s3 == SetField(s2, newNode, "next", tail)
        s4 == SetField(s3, newNode, "prev", s3.heap[tail].prev)
        s5 == SetField(s4, s4.heap[tail].prev, "next", newNode)
    IN  SetField(s5, tail, "prev", newNode)

\* variant: the most recently used entry is the one removed at capacity
setNewEvictsHead(st, cap, k, newNode) ==
    LET first == st.heap[head].next
        s1 == IF AtCapacity(st.cache, cap)
              THEN removeNode(MapDelete(st, st.heap[first].key), first)
              ELSE st
        s2 == MapSet(s1, k, newNode)
    IN  addToHead(s2, newNode)

\* set(key, value) when the key is not in the Map; newNode is the fresh node
setNew(st, cap, k, newNode) ==
    LET s1 == IF AtCapacity(st.cache, cap) THEN removeTail(st) ELSE st
        s2 == MapSet(s1, k, newNode)
    IN  addToHead(s2, newNode)

\* set(key, value): the store it leaves; newNode is the node `new LRUNode`
\* yields if the key is not in the Map
set(st, cap, k, v, newNode) ==
    LET existingNode == MapGet(st.cache, k)
    IN  IF existingNode # Null
        THEN setExisting(st, existingNode, v)
        ELSE setNew([st EXCEPT !.heap = [n \in (DOMAIN st.heap) \cup {newNode} |->
                        IF n = newNode THEN LRUNode(k, v) ELSE st.heap[n]]],
                    cap, k, newNode)

\* an identity no object has
FreshNode(h) ==
    CHOOSE n \in NodeIds \ DOMAIN h : \A m \in NodeIds \ DOMAIN h : n <= m

Set(k, v) ==
    /\ phase = "live"
    /\ k \in DOMAIN cache \/ NodeIds \ DOMAIN heap # {}
    /\ LET newNode == IF k \in DOMAIN cache THEN Null ELSE FreshNode(heap)
           s1 == set(Store(heap, cache), capacity, k, v, newNode)
       IN  /\ Commit(s1)
           /\ last' = Call("set", k, v, k \in DOMAIN cache, s1.evicted)
           /\ written' = Write(written, k, v, s1.evicted)
    /\ touched' = Touch(touched, k)
    /\ ret' = Undefined
    /\ UNCHANGED <<phase, capacity, iter, yielded, obtained>>

\* variant: the key leaves the Map but the node stays linked
deleteNodeKeepsLinks(st, k, node) == MapDelete(st, k)

\* variant: the removed node's own links are cleared
deleteNodeUnlinks(st, k, node) ==
    LET s1 == removeNode(MapDelete(st, k), node)
        s2 == SetField(s1, node, "next", Null)
    IN  SetField(s2, node, "prev", Null)

\* delete(key)
deleteNode(st, k, node) == removeNode(MapDelete(st, k), node)

\* variant: the early return on a miss is missing, so the undefined node
\* is dereferenced
DeleteNoMissCheck(k) ==
    /\ phase = "live"
    /\ LET node == MapGet(cache, k)
           st == Store(heap, cache)
       IN  IF node = Null
           THEN /\ Commit(Throw(st))
                /\ ret' = Undefined
           ELSE LET s1 == deleteNode(st, k, node)
                IN  /\ Commit(s1)
                    /\ ret' = IF s1.err THEN Undefined ELSE TRUE
    /\ last' = Call("delete", k, NullValue, k \in DOMAIN cache, NullKey)
    /\ written' = Unwrite(written, k)
    /\ UNCHANGED <<phase, capacity, iter, touched, yielded, obtained>>

Delete(k) ==
    /\ phase = "live"
    /\ LET node == MapGet(cache, k)
           st == Store(heap, cache)
       IN  IF node = Null
           THEN /\ Commit(st)
                /\ ret' = FALSE
           ELSE LET s1 == deleteNode(st, k, node)
                IN  /\ Commit(s1)
                    /\ ret' = IF s1.err THEN Undefined ELSE TRUE
    /\ last' = Call("delete", k, NullValue, k \in DOMAIN cache, NullKey)
    /\ written' = Unwrite(written, k)
    /\ UNCHANGED <<phase, capacity, iter, touched, yielded, obtained>>

\* variant: has is written as a get, which promotes the entry
HasPromotes(k) ==
    /\ phase = "live"
    /\ LET node == MapGet(cache, k)
           st == Store(heap, cache)
       IN  Commit(IF node = Null THEN st ELSE moveToHead(st, node))
    /\ ret' = (k \in DOMAIN cache)
    /\ last' = Call("has", k, NullValue, k \in DOMAIN cache, NullKey)
    /\ UNCHANGED <<phase, capacity, iter, touched, written, yielded, obtained>>

\* has(key)
Has(k) ==
    /\ phase = "live"
    /\ ret' = (k \in DOMAIN cache)
    /\ error' = "none"
    /\ last' = Call("has", k, NullValue, k \in DOMAIN cache, NullKey)
    /\ UNCHANGED <<phase, capacity, cache, heap, iter, touched, written, yielded, obtained>>

\* variant: the last line, this.tail.prev = this.head, is missing
clearKeepsTailLink(st) ==
    LET s1 == [st EXCEPT !.cache = EmptyMap]
    IN  SetField(s1, head, "next", tail)

\* clear()
clear(st) ==
    LET s1 == [st EXCEPT !.cache = EmptyMap]
        s2 == SetField(s1, head, "next", tail)
    IN  SetField(s2, tail, "prev", head)

Clear ==
    /\ phase = "live"
    /\ Commit(clear(Store(heap, cache)))
    /\ ret' = Undefined
    /\ last' = Call0("clear")
    /\ written' = NoWrites
    /\ UNCHANGED <<phase, capacity, iter, touched, yielded, obtained>>

\* a read that returns r and changes nothing
Read(op, r) ==
    /\ phase = "live"
    /\ ret' = r
    /\ error' = "none"
    /\ last' = Call0(op)
    /\ UNCHANGED <<phase, capacity, cache, heap, iter, touched, written, yielded, obtained>>

\* the getter size and the snapshots keys(), values(), entries()
SizeGet == Read("size", size(cache))
KeysCall == Read("keys", keys(heap))
ValuesCall == Read("values", values(heap))
EntriesCall == Read("entries", entries(heap))

(***************************************************************************)
(* The generator of [Symbol.iterator]().  Calling the method makes the     *)
(* generator object and runs none of its body; every next() runs the body  *)
(* to the next yield or to its end.  While it is suspended at the yield,   *)
(* the generator holds the node it yielded in `current`.                   *)
(***************************************************************************)
\* the history of yields after the pair r was yielded
Remember(y, r) ==
    IF Len(y) < MaxYielded THEN Append(y, r) ELSE Append(Tail(y), r)

\* variant: the generator is not lazy: making it runs its body to the first
\* yield, so it holds the first node from the moment it is made
IterStartEager ==
    /\ phase = "live"
    /\ LET current == heap[head].next
       IN  IF current # Null /\ current # tail
           THEN /\ iter' = [st |-> "yielded", current |-> current]
                /\ yielded' = <<<<heap[current].key, heap[current].value>>>>
           ELSE /\ iter' = [st |-> "done", current |-> Null]
                /\ yielded' = <<>>
    /\ heap' = Collect(heap, cache, iter')
    /\ ret' = Undefined
    /\ error' = "none"
    /\ last' = Call0("iterator")
    /\ obtained' = keys(heap)
    /\ UNCHANGED <<phase, capacity, cache, touched, written>>

IterStart ==
    /\ phase = "live"
    /\ iter' = [st |-> "start", current |-> Null]
    /\ heap' = Collect(heap, cache, iter')
    /\ ret' = Undefined
    /\ error' = "none"
    /\ last' = Call0("iterator")
    /\ yielded' = <<>>
    /\ obtained' = keys(heap)
    /\ UNCHANGED <<phase, capacity, cache, touched, written>>

\* variant: the walk starts at this.head.next.next
IterAdvanceSkipsFirst(h, it) ==
    IF it.st = "start"
    THEN (IF h[head].next = Null THEN Null ELSE h[h[head].next].next)
    ELSE h[it.current].next

\* the node the loop test looks at when the generator is resumed
IterAdvance(h, it) ==
    IF it.st = "start" THEN h[head].next ELSE h[it.current].next

\* variant: the traversal reads each entry as get does, which promotes it
IterNextPromotes ==
    /\ phase = "live"
    /\ iter.st \in {"start", "yielded"}
    /\ LET current == IterAdvance(heap, iter)
       IN  IF current # Null /\ current # tail
           THEN /\ iter' = [st |-> "yielded", current |-> current]
                /\ yielded' = Remember(yielded, <<heap[current].key,
                                                  heap[current].value>>)
                /\ heap' = Collect(moveToHead(Store(heap, cache), current).heap,
                                   cache, iter')
           ELSE /\ iter' = [st |-> "done", current |-> Null]
                /\ heap' = Collect(heap, cache, iter')
                /\ UNCHANGED yielded
    /\ ret' = Undefined
    /\ error' = "none"
    /\ last' = Call0("next")
    /\ UNCHANGED <<phase, capacity, cache, touched, written, obtained>>

IterNext ==
    /\ phase = "live"
    /\ iter.st \in {"start", "yielded"}
    /\ LET current == IterAdvance(heap, iter)
       IN  IF current # Null /\ current # tail
           THEN /\ iter' = [st |-> "yielded", current |-> current]
                /\ yielded' = Remember(yielded, <<heap[current].key,
                                                  heap[current].value>>)
           ELSE /\ iter' = [st |-> "done", current |-> Null]
                /\ UNCHANGED yielded
    /\ ret' = Undefined
    /\ heap' = Collect(heap, cache, iter')
    /\ error' = "none"
    /\ last' = Call0("next")
    /\ UNCHANGED <<phase, capacity, cache, touched, written, obtained>>

\* the for-of loop is over: its generator, which has returned, is dropped
IterEnd ==
    /\ phase = "live"
    /\ iter.st = "done"
    /\ iter' = [st |-> "none", current |-> Null]
    /\ yielded' = <<>>
    /\ obtained' = <<>>
    /\ heap' = Collect(heap, cache, iter')
    /\ ret' = Undefined
    /\ error' = "none"
    /\ last' = Call0("end")
    /\ UNCHANGED <<phase, capacity, cache, touched, written>>

Next ==
    \/ \E c \in IntegerArgs : Construct(c)
    \/ \E c \in IntegerArgs : createLRUCache(c)
    \/ \E k \in Keys : Get(k)
    \/ \E k \in Keys, v \in Values : Set(k, v)
    \/ \E k \in Keys : Delete(k)
    \/ \E k \in Keys : Has(k)
    \/ Clear
    \/ SizeGet
    \/ KeysCall
    \/ ValuesCall
    \/ EntriesCall

Spec == Init /\ [][Next]_vars

\* new LRUCache(c) and createLRUCache with any number as the argument, an
\* integer or not
NextAnyCapacity ==
    \/ \E c \in CapacityArgs : Construct(c)
    \/ \E c \in CapacityArgs : createLRUCache(c)
    \/ \E k \in Keys : Get(k)
    \/ \E k \in Keys, v \in Values : Set(k, v)
    \/ \E k \in Keys : Delete(k)
    \/ \E k \in Keys : Has(k)
    \/ Clear
    \/ SizeGet
    \/ KeysCall
    \/ ValuesCall
    \/ EntriesCall

SpecAnyCapacity == Init /\ [][NextAnyCapacity]_vars

\* The calls of Next with complete for-of traversals between them: a loop
\* `for (const [key, value] of cache) { }` whose body leaves the cache
\* alone runs from IterStart through IterNext to IterEnd before the next
\* call is made.
NoTraversal == iter.st = "none"

NextTraverse ==
    \/ \E c \in IntegerArgs : NoTraversal /\ Construct(c)
    \/ \E c \in IntegerArgs : NoTraversal /\ createLRUCache(c)
    \/ \E k \in Keys : NoTraversal /\ Get(k)
    \/ \E k \in Keys, v \in Values : NoTraversal /\ Set(k, v)
    \/ \E k \in Keys : NoTraversal /\ Delete(k)
    \/ \E k \in Keys : NoTraversal /\ Has(k)
    \/ NoTraversal /\ Clear
    \/ NoTraversal /\ SizeGet
    \/ NoTraversal /\ KeysCall
    \/ NoTraversal /\ ValuesCall
    \/ NoTraversal /\ EntriesCall
    \/ NoTraversal /\ IterStart
    \/ IterNext
    \/ IterEnd

SpecTraverse == Init /\ [][NextTraverse]_vars

(***************************************************************************)
(* A loop `for (const [key, value] of cache) { ... }` whose body calls     *)
(* get(key) or set(key, value) with the pair it was just handed, or       *)
(* nothing: after each step of the generator that yielded, the body makes  *)
(* at most one call, and then the loop resumes the generator.              *)
(***************************************************************************)
\* the loop body runs: the generator is suspended at its yield
InBody == phase = "live" /\ iter.st = "yielded" /\ last.op = "next"

\* the pair the loop was handed: const [key, value]
Handed == yielded[Len(yielded)]

LoopGet == InBody /\ Get(Handed[1])
LoopSet == InBody /\ Set(Handed[1], Handed[2])

NextLoopTouch ==
    \/ \E c \in IntegerArgs : NoTraversal /\ Construct(c)
    \/ \E k \in Keys, v \in Values : NoTraversal /\ Set(k, v)
    \/ NoTraversal /\ IterStart
    \/ IterNext
    \/ LoopGet
    \/ LoopSet
    \/ IterEnd

SpecLoopTouch == Init /\ [][NextLoopTouch]_vars

\* a running loop goes on: the generator is resumed after the body, and
\* the loop statement is left when the generator has returned (each of the
\* two steps changes iter)
SpecLoopTouchFair ==
    SpecLoopTouch /\ WF_iter(IterNext) /\ WF_iter(IterEnd)

(***************************************************************************)
(* A generator that is made and left alone while one set or delete is      *)
(* called, and then run to its end by a loop whose body leaves the cache   *)
(* alone:                                                                  *)
(*     const it = cache[Symbol.iterator](); cache.set(k, v);               *)
(*     for (const [key, value] of it) { }                                  *)
(***************************************************************************)
\* the generator was just made and has not been resumed
JustMade == phase = "live" /\ iter.st = "start" /\ last.op = "iterator"

LateSet(k, v) == JustMade /\ Set(k, v)
LateDelete(k) == JustMade /\ Delete(k)

NextLate ==
    \/ \E c \in IntegerArgs : NoTraversal /\ Construct(c)
    \/ \E k \in Keys, v \in Values : NoTraversal /\ Set(k, v)
    \/ NoTraversal /\ IterStart
    \/ \E k \in Keys, v \in Values : LateSet(k, v)
    \/ \E k \in Keys : LateDelete(k)
    \/ IterNext
    \/ IterEnd

SpecLate == Init /\ [][NextLate]_vars

(***************************************************************************)
(* A loop `for (const [key, value] of cache) { ... }` whose body calls     *)
(* delete(key) with the key it was just handed, or nothing.                *)
(***************************************************************************)
LoopDelete == InBody /\ Delete(Handed[1])

NextLoopDelete ==
    \/ \E c \in IntegerArgs : NoTraversal /\ Construct(c)
    \/ \E k \in Keys, v \in Values : NoTraversal /\ Set(k, v)
    \/ NoTraversal /\ IterStart
    \/ IterNext
    \/ LoopDelete
    \/ IterEnd

SpecLoopDelete == Init /\ [][NextLoopDelete]_vars

(***************************************************************************)
(* What a caller can observe, used to state the properties.                *)
(***************************************************************************)
Live == phase = "live"
KeySet(h) == {keys(h)[i] : i \in 1..Len(keys(h))}
Full == size(cache) * Denominator = capacity
Front(s) == SubSeq(s, 1, Len(s) - 1)
\* the position of key k in the entries es, 0 if it is not there
IndexOf(es, k) ==
    IF \E i \in 1..Len(es) : es[i][1] = k
    THEN CHOOSE i \in 1..Len(es) : es[i][1] = k
    ELSE 0
RemoveAt(es, i) == SubSeq(es, 1, i - 1) \o SubSeq(es, i + 1, Len(es))
NoDuplicates(s) == \A i, j \in 1..Len(s) : s[i] = s[j] => i = j
\* the touched keys that are live, latest touch first
LiveTouched == SelectSeq(touched, LAMBDA k : k \in DOMAIN cache)

(***************************************************************************)
(* C1.  With a positive integer capacity, 0 <= size <= capacity in every   *)
(* state between operations, for the Map's size and for the length of the  *)
(* ordering alike.                                                         *)
(***************************************************************************)
C1_SizeWithinCapacity ==
    (Live /\ IsInteger(capacity)) =>
        /\ 0 <= size(cache)
        /\ size(cache) * Denominator <= capacity
        /\ Len(keys(heap)) * Denominator <= capacity

\* a new key was set and the cache is at its capacity
C1_Witness ==
    Live /\ IsInteger(capacity) /\ Full /\ last.op = "set" /\ ~last.hit

(***************************************************************************)
(* C2.  The Map and the list hold the same keys: the walk from head to     *)
(* tail has no node and no key twice, its length is the Map's size, its    *)
(* keys are the Map's keys, and the Map's node for k is the list node      *)
(* whose key is k.                                                         *)
(***************************************************************************)
C2_IndexMatchesOrdering ==
    Live =>
        LET w == WalkNodes(heap)
        IN  /\ NoDuplicates(w)
            /\ NoDuplicates(keys(heap))
            /\ Len(w) = size(cache)
            /\ KeySet(heap) = DOMAIN cache
            /\ \A i \in 1..Len(w) : w[i] \notin {head, tail}
            /\ \A k \in DOMAIN cache :
                   /\ heap[cache[k]].key = k
                   /\ \E i \in 1..Len(w) : w[i] = cache[k]

\* an entry was deleted from between others, or from the ends, and two remain
C2_Witness ==
    Live /\ last.op = "delete" /\ last.hit /\ Len(keys(heap)) = 2

(***************************************************************************)
(* C3.  Eviction law: set(k, v) with k absent and size = capacity removes  *)
(* exactly the entry that was last in keys(); the other entries stay, in   *)
(* their order and with their values, behind the new entry.                *)
(***************************************************************************)
C3_Step ==
    (Live /\ last'.op = "set" /\ last'.key \notin DOMAIN cache /\ Full) =>
        LET old == entries(heap)
        IN  /\ error' = "none"
            /\ Len(old) >= 1
            /\ entries(heap') = <<<<last'.key, last'.value>>>> \o Front(old)
            /\ DOMAIN cache' =
                   (DOMAIN cache \ {old[Len(old)][1]}) \cup {last'.key}

C3_EvictionLaw == [][C3_Step]_vars

\* removeTail ran during a set, and an older entry survived it
C3_Witness ==
    /\ Live /\ last.op = "set" /\ last.evicted # NullKey
    /\ last.evicted \notin DOMAIN cache
    /\ Len(keys(heap)) = 2

(***************************************************************************)
(* C4.  keys() lists the live keys by their most recent touch, latest      *)
(* first, where a touch is a set of the key or a get that hit it; has, a   *)
(* get that missed, a delete that failed and the snapshot reads leave      *)
(* keys() as it was.                                                       *)
(***************************************************************************)
C4_Order == Live => keys(heap) = LiveTouched

C4_Step ==
    (/\ Live
     /\ \/ last'.op \in {"has", "size", "keys", "values", "entries"}
        \/ last'.op \in {"get", "delete"} /\ last'.key \notin DOMAIN cache)
    => keys(heap') = keys(heap)

C4_RecencyOrder == [][C4_Order' /\ C4_Step]_vars

\* a delete failed while a formerly touched key is gone and two keys live
C4_Witness ==
    /\ Live /\ last.op = "delete" /\ ~last.hit
    /\ Len(keys(heap)) = 2 /\ Len(touched) = 3

(***************************************************************************)
(* C5.  get(k) on a present key returns k's value and moves k to the front *)
(* of keys(); the other keys keep their order, all values and size stay.   *)
(***************************************************************************)
C5_Step ==
    (Live /\ last'.op = "get" /\ last'.key \in DOMAIN cache) =>
        LET old == entries(heap)
            i == IndexOf(old, last'.key)
        IN  /\ error' = "none"
            /\ i > 0
            /\ ret' = old[i][2]
            /\ entries(heap') = <<old[i]>> \o RemoveAt(old, i)
            /\ size(cache') = size(cache)

C5_GetPromotes == [][C5_Step]_vars

\* a get hit one of three entries
C5_Witness ==
    /\ Live /\ last.op = "get" /\ last.hit /\ ret \in Values
    /\ Len(keys(heap)) = 3 /\ keys(heap)[1] = last.key

(***************************************************************************)
(* C6.  set(k, v) on a present key stores v for k and moves k to the front *)
(* of keys(); the other keys keep their order and values, size and the set *)
(* of live keys stay, at capacity too.                                     *)
(***************************************************************************)
C6_Step ==
    (Live /\ last'.op = "set" /\ last'.key \in DOMAIN cache) =>
        LET old == entries(heap)
            i == IndexOf(old, last'.key)
        IN  /\ error' = "none"
            /\ i > 0
            /\ entries(heap') =
                   <<<<last'.key, last'.value>>>> \o RemoveAt(old, i)
            /\ size(cache') = size(cache)
            /\ DOMAIN cache' = DOMAIN cache

C6_SetOverwrites == [][C6_Step]_vars

\* a present key was set while the cache was at capacity
C6_Witness ==
    /\ Live /\ last.op = "set" /\ last.hit /\ Full
    /\ Len(keys(heap)) >= 2

(***************************************************************************)
(* C7.  A set removes an entry only if its key is absent and size equals   *)
(* capacity, and then exactly one; otherwise it removes none.              *)
(***************************************************************************)
C7_Step ==
    (Live /\ last'.op = "set") =>
        LET removed == KeySet(heap) \ KeySet(heap')
        IN  /\ removed = DOMAIN cache \ DOMAIN cache'
            /\ IF last'.key \notin DOMAIN cache /\ Full
               THEN Cardinality(removed) = 1
               ELSE removed = {}

C7_SetRemovesAtMostOne == [][C7_Step]_vars

\* a new key was set into a slot freed earlier: nothing was evicted, and the
\* cache is at capacity again
C7_Witness ==
    /\ Live /\ last.op = "set" /\ ~last.hit /\ last.evicted = NullKey
    /\ Full /\ Len(touched) > size(cache)

(***************************************************************************)
(* C8.  set(k, v) with k absent and size below capacity puts (k, v) first  *)
(* in keys(), adds one to size and keeps the former entries in order.      *)
(***************************************************************************)
C8_Step ==
    (/\ Live /\ last'.op = "set" /\ last'.key \notin DOMAIN cache
     /\ size(cache) * Denominator < capacity) =>
        /\ error' = "none"
        /\ entries(heap') = <<<<last'.key, last'.value>>>> \o entries(heap)
        /\ size(cache') = size(cache) + 1

C8_SetInserts == [][C8_Step]_vars

\* a third key was inserted without an eviction
C8_Witness ==
    /\ Live /\ last.op = "set" /\ ~last.hit /\ last.evicted = NullKey
    /\ Len(keys(heap)) = 3

(***************************************************************************)
(* C9.  has(k) is true exactly if k is a live key, and leaves keys(),      *)
(* values(), entries() and size as they were.                              *)
(***************************************************************************)
C9_Step ==
    (Live /\ last'.op = "has") =>
        /\ error' = "none"
        /\ ret' = (last'.key \in KeySet(heap))
        /\ keys(heap') = keys(heap)
        /\ values(heap') = values(heap)
        /\ entries(heap') = entries(heap)
        /\ size(cache') = size(cache)

C9_HasIsPure == [][C9_Step]_vars

\* has was true for the least recently used of several entries of a full
\* cache, and that entry is still the next one to be evicted
C9_Witness ==
    /\ Live /\ last.op = "has" /\ ret = TRUE /\ Full
    /\ Len(keys(heap)) >= 2
    /\ keys(heap)[Len(keys(heap))] = last.key

(***************************************************************************)
(* C10.  get(k) on an absent key returns undefined and leaves keys(),      *)
(* values() and size as they were.                                         *)
(***************************************************************************)
C10_Step ==
    (Live /\ last'.op = "get" /\ last'.key \notin DOMAIN cache) =>
        /\ error' = "none"
        /\ ret' = Undefined
        /\ keys(heap') = keys(heap)
        /\ values(heap') = values(heap)
        /\ size(cache') = size(cache)

C10_GetMissIsPure == [][C10_Step]_vars

\* a get missed in a cache that holds other entries
C10_Witness ==
    /\ Live /\ last.op = "get" /\ ~last.hit /\ ret = Undefined
    /\ Len(keys(heap)) >= 1

(***************************************************************************)
(* C11.  delete(k) on a present key returns true and removes k: has(k) is  *)
(* false, size is one less, and the other entries keep their values and    *)
(* their order in keys().                                                  *)
(***************************************************************************)
C11_Step ==
    (Live /\ last'.op = "delete" /\ last'.key \in DOMAIN cache) =>
        LET old == entries(heap)
            i == IndexOf(old, last'.key)
        IN  /\ error' = "none"
            /\ ret' = TRUE
            /\ i > 0
            /\ entries(heap') = RemoveAt(old, i)
            /\ last'.key \notin DOMAIN cache'
            /\ last'.key \notin KeySet(heap')
            /\ size(cache') = size(cache) - 1

C11_DeleteRemoves == [][C11_Step]_vars

\* a delete returned true in a cache of capacity MaxCapacity and left two
\* entries behind
C11_Witness ==
    /\ Live /\ last.op = "delete" /\ last.hit /\ ret = TRUE
    /\ capacity = MaxCapacity * Denominator
    /\ Len(keys(heap)) = 2 /\ last.key \notin DOMAIN cache

(***************************************************************************)
(* C12.  delete(k) on an absent key returns false and leaves size, keys()  *)
(* and values() as they were, on an empty cache too.                       *)
(***************************************************************************)
C12_Step ==
    (Live /\ last'.op = "delete" /\ last'.key \notin DOMAIN cache) =>
        /\ error' = "none"
        /\ ret' = FALSE
        /\ size(cache') = size(cache)
        /\ keys(heap') = keys(heap)
        /\ values(heap') = values(heap)

C12_DeleteMissIsPure == [][C12_Step]_vars

\* a delete returned false on an empty cache
C12_Witness ==
    /\ Live /\ last.op = "delete" /\ ~last.hit /\ ret = FALSE
    /\ size(cache) = 0 /\ keys(heap) = <<>>

(***************************************************************************)
(* C13.  After clear() the instance is in the state the constructor built  *)
(* for the same capacity: an empty Map and the two sentinels linked to     *)
(* each other and to nothing else.  Every call reads and writes only the   *)
(* capacity, the Map and the nodes, so from an equal state an equal        *)
(* sequence of calls gives equal results: size is 0, keys() is empty,      *)
(* every get misses, and no former entry is linked or counted any more.    *)
(***************************************************************************)
C13_Step ==
    (Live /\ last'.op = "clear") =>
        /\ error' = "none"
        /\ phase' = "live"
        /\ capacity' = capacity
        /\ cache' = EmptyMap
        /\ heap' = Sentinels
        /\ size(cache') = 0
        /\ keys(heap') = <<>>
        /\ \A k \in Keys : MapGet(cache', k) = Null

C13_ClearResets == [][C13_Step]_vars

\* a cache that had held three keys was cleared
C13_Witness ==
    /\ Live /\ last.op = "clear" /\ Len(touched) = 3
    /\ size(cache) = 0

(***************************************************************************)
(* C14.  Round trip: while k has not been evicted, deleted or cleared      *)
(* since the latest set(k, v), get(k) returns that v, whatever was done    *)
(* with other keys in between.                                             *)
(***************************************************************************)
C14_Step ==
    (Live /\ last'.op = "get" /\ last'.key \in DOMAIN written) =>
        /\ error' = "none"
        /\ ret' = written[last'.key]

C14_RoundTrip == [][C14_Step]_vars

\* a get returned the value set for its key after another key had been set
\* later and a third one had been removed
C14_Witness ==
    /\ Live /\ last.op = "get" /\ last.key \in DOMAIN written
    /\ ret = written[last.key]
    /\ Len(touched) = 3 /\ size(cache) = 2
    /\ touched[2] \in DOMAIN cache

(***************************************************************************)
(* C15.  new LRUCache(c) with c <= 0 throws the capacity error and leaves  *)
(* no instance; with a positive integer c it yields an empty cache of      *)
(* capacity c.                                                             *)
(***************************************************************************)
C15_Step ==
    (last'.op = "new") =>
        IF last'.arg <= 0
        THEN /\ phase' = "failed"
             /\ error' = "Capacity must be positive"
        ELSE IsInteger(last'.arg) =>
                 /\ phase' = "live"
                 /\ error' = "none"
                 /\ capacity' = last'.arg
                 /\ size(cache') = 0
                 /\ keys(heap') = <<>>

C15_ConstructorValidates == [][C15_Step]_vars

\* new LRUCache(0) threw
C15_Witness ==
    /\ phase = "failed" /\ last.op = "new" /\ last.arg = 0
    /\ error = "Capacity must be positive"

(***************************************************************************)
(* C16.  A construction whose argument is not a positive integer throws,   *)
(* so every instance has a positive integer capacity and its size never    *)
(* exceeds it.                                                             *)
(***************************************************************************)
C16_OnlyPositiveIntegers ==
    /\ (last.op \in {"new", "createLRUCache"}
            /\ ~(last.arg > 0 /\ IsInteger(last.arg))) => phase = "failed"
    /\ Live => /\ capacity > 0
               /\ IsInteger(capacity)
               /\ size(cache) * Denominator <= capacity

(***************************************************************************)
(* C17.  No call on an instance throws: no non-null assertion in           *)
(* addToHead, removeNode or removeTail meets a null link.                  *)
(***************************************************************************)
C17_NoCallThrows == Live => error = "none"

\* the only entry of a cache of capacity 1 was evicted: removeTail unlinked
\* a node whose neighbours are the two sentinels
C17_Witness ==
    /\ Live /\ last.op = "set" /\ last.evicted # NullKey
    /\ capacity = Denominator /\ error = "none"

(***************************************************************************)
(* C18.  keys(), values(), entries() and a complete traversal give the     *)
(* same sequence: each has size elements, entries()[i] is the pair of      *)
(* keys()[i] and values()[i], and a traversal yields the pairs of          *)
(* entries() in order and then ends.                                       *)
(***************************************************************************)
C18_SnapshotsAgree ==
    Live =>
        /\ Len(keys(heap)) = size(cache)
        /\ Len(values(heap)) = size(cache)
        /\ Len(entries(heap)) = size(cache)
        /\ \A i \in 1..Len(entries(heap)) :
               entries(heap)[i] = <<keys(heap)[i], values(heap)[i]>>
        /\ iter.st = "start" => yielded = <<>>
        /\ iter.st = "yielded" =>
               /\ Len(yielded) \in 1..Len(entries(heap))
               /\ yielded = SubSeq(entries(heap), 1, Len(yielded))
               /\ yielded[Len(yielded)] =
                      <<heap[iter.current].key, heap[iter.current].value>>
        /\ iter.st = "done" => yielded = entries(heap)

\* a traversal of three entries has ended
C18_Witness ==
    Live /\ iter.st = "done" /\ Len(yielded) = 3

(***************************************************************************)
(* C19.  size, keys(), values(), entries() and the steps of a traversal    *)
(* change neither the Map nor any node, hence not the order, the values    *)
(* or the next entry to be evicted.                                        *)
(***************************************************************************)
C19_Step ==
    (/\ Live
     /\ last'.op \in {"size", "keys", "values", "entries",
                      "iterator", "next", "end"}) =>
        /\ error' = "none"
        /\ cache' = cache
        /\ heap' = heap
        /\ entries(heap') = entries(heap)
        /\ size(cache') = size(cache)

C19_ReadsArePure == [][C19_Step]_vars

\* a for-of loop over a full cache of two entries is over
C19_Witness ==
    /\ Live /\ last.op = "end" /\ Full
    /\ Len(keys(heap)) = 2

(***************************************************************************)
(* C20.  createLRUCache({capacity: c}) does what new LRUCache(c) does: it  *)
(* throws the capacity error if c <= 0 and otherwise leaves the instance   *)
(* the constructor builds for c.                                           *)
(***************************************************************************)
C20_Step ==
    (last'.op = "createLRUCache") =>
        IF last'.arg <= 0
        THEN /\ phase' = "failed"
             /\ error' = "Capacity must be positive"
        ELSE /\ phase' = "live"
             /\ error' = "none"
             /\ capacity' = last'.arg
             /\ cache' = EmptyMap
             /\ heap' = Sentinels

C20_FactoryIsConstructor == [][C20_Step]_vars

\* createLRUCache({capacity: 2}) returned an instance
C20_Witness ==
    /\ Live /\ last.op = "createLRUCache"
    /\ last.arg = 2 * Denominator /\ capacity = last.arg

(***************************************************************************)
(* C21.  Survival bound.  A key touched by a set or by a get that hit is   *)
(* present afterwards.  From then on every call other than delete(k) and   *)
(* clear() keeps k present, with the value it had unless the call is a set *)
(* of k, as long as fewer than capacity distinct other keys have been      *)
(* touched since the latest touch of k.  A key leaves the cache only by    *)
(* delete of that key, by clear, or by the set of a new key made when the  *)
(* cache held capacity keys of which the other capacity - 1 were all       *)
(* touched after it.                                                       *)
(***************************************************************************)
\* the place of key k in the sequence of keys s, 0 if it is not there
Position(s, k) ==
    IF \E i \in 1..Len(s) : s[i] = k
    THEN CHOOSE i \in 1..Len(s) : s[i] = k
    ELSE 0

\* the number of distinct other keys touched since the latest touch of k
TouchedSince(s, k) == Position(s, k) - 1

C21_Step ==
    Live =>
        /\ (last'.op = "set" \/ (last'.op = "get" /\ last'.hit)) =>
               /\ last'.key \in DOMAIN cache'
               /\ TouchedSince(touched', last'.key) = 0
        /\ \A k \in DOMAIN cache :
               /\ (/\ ~(last'.op = "delete" /\ last'.key = k)
                   /\ last'.op # "clear"
                   /\ TouchedSince(touched', k) * Denominator < capacity) =>
                      /\ k \in DOMAIN cache'
                      /\ heap'[cache'[k]].value =
                             IF last'.op = "set" /\ last'.key = k
                             THEN last'.value
                             ELSE heap[cache[k]].value
               /\ k \notin DOMAIN cache' =>
                      \/ last'.op = "delete" /\ last'.key = k
                      \/ last'.op = "clear"
                      \/ /\ last'.op = "set"
                         /\ last'.key \notin DOMAIN cache
                         /\ last'.evicted = k
                         /\ size(cache) * Denominator = capacity
                         /\ \A j \in DOMAIN cache \ {k} :
                                Position(touched, j) < Position(touched, k)

C21_SurvivalBound == [][C21_Step]_vars

\* a full cache of capacity 2 evicted a key on the set of a third one; the
\* key that stayed had one other key touched since its latest touch
C21_Witness ==
    /\ Live /\ last.op = "set" /\ last.evicted # NullKey
    /\ capacity = 2 * Denominator /\ size(cache) = 2
    /\ Len(touched) = 3 /\ touched[2] \in DOMAIN cache
    /\ touched[3] = last.evicted

(***************************************************************************)
(* C22.  The list is a well-formed doubly linked chain in every state: for *)
(* the head sentinel and every node reached from it along next, the next   *)
(* node's prev is that node, and the walk ends at the tail sentinel; the   *)
(* head sentinel has no prev and the tail sentinel no next; the walk along *)
(* prev from the tail sentinel visits the nodes of the forward walk in     *)
(* reverse order.  removeNode, which delete, removeTail and moveToHead     *)
(* call, links the two neighbours of the node to each other.               *)
(***************************************************************************)
\* the walk from `current` along prev until the head sentinel
RECURSIVE WalkBack(_, _, _)
WalkBack(h, current, fuel) ==
    IF current = Null \/ current = head \/ fuel = 0 THEN <<>>
    ELSE <<current>> \o WalkBack(h, h[current].prev, fuel - 1)

WalkBackNodes(h) == WalkBack(h, h[tail].prev, Cardinality(DOMAIN h) + 1)

Reverse(s) == [i \in 1..Len(s) |-> s[Len(s) + 1 - i]]

C22_WellFormedChain ==
    Live =>
        LET chain == <<head>> \o WalkNodes(heap)
        IN  /\ heap[head].prev = Null
            /\ heap[tail].next = Null
            /\ \A i \in 1..Len(chain) :
                   /\ heap[chain[i]].next # Null
                   /\ heap[heap[chain[i]].next].prev = chain[i]
            /\ heap[chain[Len(chain)]].next = tail
            /\ WalkBackNodes(heap) = Reverse(WalkNodes(heap))
            /\ \A k \in DOMAIN cache :
                   LET node == cache[k]
                       before == heap[node].prev
                       after == heap[node].next
                       s1 == removeNode(Store(heap, cache), node)
                   IN  /\ ~s1.err
                       /\ s1.heap[before].next = after
                       /\ s1.heap[after].prev = before

\* an entry was deleted from a list of three, and then one of the two that
\* are left was promoted by a set
C22_Witness ==
    /\ Live /\ last.op = "set" /\ last.hit
    /\ Len(touched) = 3 /\ Len(WalkNodes(heap)) = 2
    /\ WalkBackNodes(heap) = Reverse(WalkNodes(heap))

(***************************************************************************)
(* C23.  A for-of traversal ends: a generator that was made returns after  *)
(* finitely many steps, also when the loop body calls get or set on the    *)
(* key it was just handed.                                                 *)
(***************************************************************************)
C23_TraversalEnds ==
    (iter.st \in {"start", "yielded"}) ~> (iter.st = "done")

(***************************************************************************)
(* C24.  The traversal is no frozen copy and starts anew each time.        *)
(* Making the generator walks nothing: whenever it is made, before the     *)
(* first traversal or after a finished one, it holds no node and has       *)
(* yielded nothing.  Its first step yields the first entry of the list as  *)
(* it is at that step, whatever was set or deleted since it was made, and  *)
(* a traversal during which nothing is removed has yielded, at its end,    *)
(* all of entries() from the most recently used entry on.                  *)
(***************************************************************************)
C24_Step ==
    Live =>
        /\ (last'.op = "iterator") =>
               /\ iter' = [st |-> "start", current |-> Null]
               /\ yielded' = <<>>
        /\ (iter.st = "start" /\ last'.op = "next") =>
               IF entries(heap) = <<>>
               THEN iter'.st = "done" /\ yielded' = <<>>
               ELSE iter'.st = "yielded" /\ yielded' = <<entries(heap)[1]>>
        /\ (/\ iter'.st = "done"
            /\ \A i \in 1..Len(yielded') : yielded'[i][1] \in DOMAIN cache') =>
               yielded' = entries(heap')

C24_TraversalIsLive == [][C24_Step]_vars

\* a traversal has ended that yielded two or more entries, all of entries(),
\* and keys() was something else when its generator was made
C24_Witness ==
    /\ Live /\ iter.st = "done" /\ Len(yielded) >= 2
    /\ yielded = entries(heap)
    /\ obtained # <<>> /\ obtained # keys(heap)

(***************************************************************************)
(* C25.  In a loop whose body deletes the key it was just handed, the      *)
(* delete succeeds and leaves the generator with exactly the entries that  *)
(* were behind the deleted one, in their order, still to visit.  Each step *)
(* of the generator yields the first of the entries still to visit and     *)
(* leaves the others, so the number of steps to the end goes down by one   *)
(* with every step, and with nothing left to visit the step ends the       *)
(* traversal.  No key is yielded twice and no sentinel is yielded.         *)
(***************************************************************************)
\* the nodes the suspended generator has still to visit
Rest(h, it) == Walk(h, h[it.current].next, Cardinality(DOMAIN h) + 1)

PairOf(h, n) == <<h[n].key, h[n].value>>

C25_Step ==
    (Live /\ iter.st = "yielded") =>
        /\ (last'.op = "delete" /\ last'.key = Handed[1]) =>
               LET w == WalkNodes(heap)
                   i == Position(w, iter.current)
               IN  /\ error' = "none"
                   /\ ret' = TRUE
                   /\ i > 0
                   /\ Rest(heap', iter') = SubSeq(w, i + 1, Len(w))
                   /\ \A n \in DOMAIN heap' \ {head, tail} :
                          PairOf(heap', n) = PairOf(heap, n)
        /\ (last'.op = "next") =>
               LET r == Rest(heap, iter)
               IN  IF r = <<>>
                   THEN iter'.st = "done" /\ yielded' = yielded
                   ELSE /\ iter' = [st |-> "yielded", current |-> r[1]]
                        /\ r[1] \notin {head, tail}
                        /\ yielded' = Append(yielded, PairOf(heap, r[1]))
                        /\ Rest(heap', iter') = Tail(r)
        /\ NoDuplicates([i \in 1..Len(yielded') |-> yielded'[i][1]])
        /\ \A i \in 1..Len(yielded') : yielded'[i][1] \in Keys

C25_DeleteYieldedKeepsWalk == [][C25_Step]_vars

\* a traversal of three entries has ended whose body deleted the first and
\* the second entry when it was handed them
C25_Witness ==
    /\ Live /\ iter.st = "done" /\ Len(yielded) = 3
    /\ entries(heap) = <<yielded[3]>>

(***************************************************************************)
(* C26.  The sentinels are never entries.  Whenever set would call         *)
(* removeTail, that is whenever size >= capacity, the node before the tail *)
(* sentinel is the node of a live key, so removeTail removes that key and  *)
(* never the head sentinel.  The Map holds no sentinel, and no sentinel    *)
(* and no null key or value is in keys(), values(), entries() or among the *)
(* pairs a traversal has yielded; the sentinels themselves stay as the     *)
(* constructor made them, without key and value.  This holds at capacity 1 *)
(* and right after clear() as in every other state.                        *)
(***************************************************************************)
C26_SentinelsAreNoEntries ==
    Live =>
        /\ AtCapacity(cache, capacity) =>
               LET lastNode == heap[tail].prev
                   s1 == removeTail(Store(heap, cache))
               IN  /\ lastNode \notin {Null, head, tail}
                   /\ \E k \in DOMAIN cache : cache[k] = lastNode
                   /\ ~s1.err
                   /\ s1.evicted \in DOMAIN cache
                   /\ WalkNodes(s1.heap) = Front(WalkNodes(heap))
                   /\ size(s1.cache) = size(cache) - 1
        /\ DOMAIN cache \subseteq Keys
        /\ \A k \in DOMAIN cache : cache[k] \notin {Null, head, tail}
        /\ \A i \in 1..Len(WalkNodes(heap)) :
               /\ WalkNodes(heap)[i] \notin {head, tail}
               /\ keys(heap)[i] \in Keys
               /\ values(heap)[i] \in Values
               /\ entries(heap)[i] \in Keys \X Values
        /\ \A i \in 1..Len(yielded) : yielded[i] \in Keys \X Values
        /\ iter.current \notin {head, tail}
        /\ PairOf(heap, head) = <<NullKey, NullValue>>
        /\ PairOf(heap, tail) = <<NullKey, NullValue>>
        /\ last.op = "clear" => keys(heap) = <<>> /\ heap[tail].prev = head

\* in a cache of capacity 1 that has evicted twice, the loop over its only
\* entry is over
C26_Witness ==
    /\ Live /\ capacity = Denominator /\ Len(touched) = 3
    /\ iter.st = "done" /\ Len(yielded) = 1
    /\ AtCapacity(cache, capacity)

(***************************************************************************)
(* C27.  The value get returns for a key changes only by a set of that     *)
(* key: across every call, each key that is present before and after it    *)
(* has the value it had, unless the call is set on that very key, and then *)
(* it has the value that was set.  The value get returns is the value of   *)
(* the key's pair in entries(): the list node with that key is the Map's.  *)
(***************************************************************************)
\* the value get(k) returns for a present key
ValueOf(h, c, k) == h[c[k]].value

C27_Step ==
    Live =>
        /\ \A k \in DOMAIN cache \cap DOMAIN cache' :
               IF last'.op = "set" /\ last'.key = k
               THEN ValueOf(heap', cache', k) = last'.value
               ELSE ValueOf(heap', cache', k) = ValueOf(heap, cache, k)
        /\ LET w == WalkNodes(heap')
           IN  \A i \in 1..Len(w) : MapGet(cache', heap'[w[i]].key) = w[i]

C27_ValueChangesOnlyBySet == [][C27_Step]_vars

\* a set evicted one key and stored a value for a new one, and the key that
\* stayed has the other value, the one that was set for it
C27_Witness ==
    /\ Live /\ last.op = "set" /\ ~last.hit /\ last.evicted # NullKey
    /\ size(cache) = 2
    /\ \E k \in DOMAIN cache \ {last.key} :
           /\ ValueOf(heap, cache, k) # last.value
           /\ ValueOf(heap, cache, k) = written[k]

====
